---- MODULE Spec2Model ----
(***************************************************************************)
(* Model of SQLiteDBParser (src/SQLiteDBParser.py): construction of the    *)
(* parser from a database file (the phases of __init__) and the output     *)
(* operations that follow it.                                              *)
(*                                                                         *)
(* The file is modelled by what the decoders read from it, not byte by     *)
(* byte: a header (signature, page size, declared page count), and per     *)
(* page the B-tree header fields, the cells its cell pointers lead to and  *)
(* the four leading bytes read as an overflow "next page" number.  A read  *)
(* that the code performs on bytes that are not there (a slice that comes  *)
(* back short) raises in Python; the model records this as pc = "crashed"  *)
(* together with the function that raised.                                 *)
(*                                                                         *)
(* Freeblocks are modelled by their chain (next-block offset, size and the *)
(* deleted cell behind them), the pointer map by its entries, the          *)
(* unallocated area of a page by the byte range that is sliced.  Of the    *)
(* options only freespace is modelled; the others are off.                 *)
(*                                                                         *)
(* Spec is the parser from construction to output.  FnSpec is a call of    *)
(* one of the decoder's pure functions (_getVarIntOfs, and the payload-    *)
(* size step of _parseLeafTableCellHeader) on arguments of its own.        *)
(***************************************************************************)
EXTENDS Integers, Sequences, FiniteSets, TLC

\* ---------------------------------------------------------------- bounds
MaxPages == 3      \* pages in a modelled file
MaxCells == 2      \* cells on the page whose cell list is varied
MaxBlocks == 2     \* freeblocks on a page that has any
\* Turns of the freeblock walk that are followed; a walk over a sound chain
\* takes at most MaxBlocks turns.
MaxWalk == MaxBlocks + 2
MaxRun == 9        \* bytes with the high bit set at the head of a varint buffer
MaxPayload == 1100 \* payload length passed to the payload-size computation
MaxBytes == 8      \* payload bytes passed to the decoding of an integer field

\* ------------------------------------------------------ program constants
INTERIOR_INDEX_BTREE_PAGE == 2
INTERIOR_TABLE_BTREE_PAGE == 5
LEAF_INDEX_BTREE_PAGE == 10
LEAF_TABLE_BTREE_PAGE == 13

sql_type == {"table", "trigger", "index", "view"}

\* ------------------------------------------------------------ field values
\* A decoded field value.  Python's heterogeneous list items are given one
\* shape: k is the Python type, i the integer, s the text, q the column
\* entries of a CREATE TABLE text (each entry its whitespace-separated words).
IntV(n) == [k |-> "int", i |-> n, s |-> "", q |-> << >>]
TextV(t) == [k |-> "str", i |-> 0, s |-> t, q |-> << >>]
BlobV(t) == [k |-> "bytes", i |-> 0, s |-> t, q |-> << >>]
SqlV(entries) == [k |-> "str", i |-> 0, s |-> "CREATE TABLE(..)", q |-> entries]
SqlUnbalanced == [k |-> "str", i |-> 0, s |-> "CREATE TABLE(", q |-> << >>]

\* ------------------------------------------------------------------ cells
\* What a cell pointer leads to.  ptr = "out": the pointer leads past the end
\* of the file.  short: the payload bytes end before the last field.  codes:
\* the serial-type codes of the payload header; vals: the values stored for
\* them.  ovf: the 4-byte first-overflow-page number behind the local payload
\* (0 when the payload is local).  child: the left-child pointer of an
\* interior cell.
Cell(ptr, short, codes, vals, ovf, child) ==
    [ptr |-> ptr, short |-> short, rid |-> 7, codes |-> codes, vals |-> vals,
     ovf |-> ovf, child |-> child]

CellA == Cell("in", FALSE, <<1, 13>>, <<IntV(1), TextV("a")>>, 0, 0)
CellB == Cell("in", FALSE, <<13>>, <<TextV("b")>>, 0, 0)
CellNull == Cell("in", FALSE, <<0, 13>>, <<IntV(0), TextV("n")>>, 0, 0)
CellReserved == Cell("in", FALSE, <<10, 13>>, <<IntV(0), TextV("r")>>, 0, 0)
CellOutside == Cell("out", FALSE, <<1, 13>>, <<IntV(1), TextV("a")>>, 0, 0)
CellShort == Cell("in", TRUE, <<13, 1>>, <<TextV("a"), IntV(1)>>, 0, 0)
CellOvf(f) == Cell("in", FALSE, <<1, 12>>, <<IntV(1), BlobV("blob")>>, f, 0)
CellChild(c) == Cell("in", FALSE, << >>, << >>, 0, c)
\* A cell whose second column, and one whose two columns, are NULL.
CellNullLater == Cell("in", FALSE, <<1, 0>>, <<IntV(1), IntV(0)>>, 0, 0)
CellNullBoth == Cell("in", FALSE, <<0, 0>>, <<IntV(0), IntV(0)>>, 0, 0)
\* A leaf cell whose payload header holds no serial type: a record of 0 fields.
CellNoFields == Cell("in", FALSE, << >>, << >>, 0, 0)

\* A catalog row (type, name, tbl_name, rootpage, sql) as a leaf-table cell.
CatRow(type, name, root, sql) ==
    Cell("in", FALSE, <<13, 13, 13, 1, 13>>,
         <<TextV(type), TextV(name), TextV(name), IntV(root), sql>>, 0, 0)

\* ------------------------------------------------------------------ pages
\* trunc: the page ends before its B-tree header does.  next: the first four
\* bytes of the page read as a big-endian page number (meaningful when the
\* page is no B-tree page: those bytes are the B-tree header otherwise).
\* fbOffset: the header's offset of the first freeblock (0: none).  blocks:
\* the freeblocks of the page; a block's offset is its index in blocks, an
\* offset that is no index lies where the page has no four bytes to unpack.
\* partial: the file ends before the page does (a page that is trunc is
\* partial too).  ptrmap: the 5-byte entries the page starts with when it is
\* read as a pointer map, up to the first entry that is all zero.
\* cellOffset: the header's offset of the cell content area; the cells lie
\* at the end of the page, CellBytes bytes each.
CellBytes == 16

Page(pageByte, cellQty, cells, rmpointer, next, trunc) ==
    [pageByte |-> pageByte, cellQty |-> cellQty, cells |-> cells,
     rmpointer |-> rmpointer, next |-> next, trunc |-> trunc,
     fbOffset |-> 0, blocks |-> << >>, partial |-> trunc, ptrmap |-> << >>,
     cellOffset |-> 512 - CellBytes * Len(cells)]

LeafPage(cells) == Page(LEAF_TABLE_BTREE_PAGE, Len(cells), cells, 0, 0, FALSE)
LeafIndexPage(cells) == Page(LEAF_INDEX_BTREE_PAGE, Len(cells), cells, 0, 0, FALSE)
InteriorPage(qty, cells, rm) == Page(INTERIOR_TABLE_BTREE_PAGE, qty, cells, rm, 0, FALSE)
OtherPage(next) == Page(0, 0, << >>, 0, next, FALSE)
TruncPage == Page(0, 0, << >>, 0, 0, TRUE)
\* A leaf-table page whose cell count is larger than the cell pointers it has.
OverfullLeaf == Page(LEAF_TABLE_BTREE_PAGE, 2, <<CellA>>, 0, 0, FALSE)

\* A freeblock: start and size are the two 16-bit numbers at its head (the
\* offset of the next freeblock, the size of this one); cell is what the bytes
\* behind them decode to as a deleted cell (ptr = "out": the block ends
\* before the payload header does).
Block(start, size, cell) == [start |-> start, size |-> size, cell |-> cell]

\* The deleted cell left in the freeblock at offset i.
FreeCell(i) == Cell("in", FALSE, <<1, 13>>, <<IntV(100 + i), TextV("free")>>, 0, 0)
FreeCellShort(i) == Cell("in", TRUE, <<1, 13>>, <<IntV(100 + i), TextV("free")>>, 0, 0)

BlockKinds == {"cell", "empty"}

BlockOf(i, start, kind) ==
    IF kind = "cell" THEN Block(start, 8, FreeCell(i))
    ELSE IF kind = "empty" THEN Block(start, 0, FreeCell(i))
    ELSE Block(start, 8, FreeCellShort(i))

\* Every chain of MaxBlocks freeblocks: any first offset (MaxBlocks + 1 lies
\* in the last three bytes of the page), any next-block offsets, cycles
\* included.
FreeChains ==
    {[fbOffset |-> o, blocks |-> [i \in 1..MaxBlocks |-> BlockOf(i, st[i], kd[i])]] :
       o \in 0..(MaxBlocks + 1),
       st \in [1..MaxBlocks -> 0..MaxBlocks],
       kd \in [1..MaxBlocks -> BlockKinds]}

\* Chains whose first block holds a cell that ends before its last field.
BadChains ==
    {[fbOffset |-> 1,
      blocks |-> [i \in 1..MaxBlocks |->
                    BlockOf(i, st[i], IF i = 1 THEN "bad" ELSE "cell")]] :
       st \in [1..MaxBlocks -> 0..MaxBlocks]}

WithChain(page, ch) == [page EXCEPT !.fbOffset = ch.fbOffset, !.blocks = ch.blocks]

\* A pointer-map entry: the type byte and the parent page number.
PtrMapEntry(t, parent) == [pageType |-> t, pageNr |-> parent]

\* Pointer-map pages.  The bytes of the first entries are also the bytes of
\* the B-tree header: the type of the first entry is the first byte of the
\* page, the low half of its parent number is the cell count.  With the
\* entries (5, 1), (1, 0) the one cell pointer is 0 and the left-child
\* pointer read there is the first four bytes of the page.
PtrMapPages ==
    {[Page(1, 0, << >>, 0, 0, FALSE) EXCEPT !.ptrmap = <<PtrMapEntry(1, 0)>>],
     [Page(1, 0, << >>, 0, 0, FALSE) EXCEPT
        !.ptrmap = <<PtrMapEntry(1, 0), PtrMapEntry(2, 0)>>],
     [Page(INTERIOR_INDEX_BTREE_PAGE, 0, << >>, 0, 0, FALSE) EXCEPT
        !.ptrmap = <<PtrMapEntry(2, 0)>>],
     [Page(INTERIOR_TABLE_BTREE_PAGE, 1,
           <<CellChild(INTERIOR_TABLE_BTREE_PAGE * 16777216)>>, 0, 0, FALSE) EXCEPT
        !.ptrmap = <<PtrMapEntry(5, 1), PtrMapEntry(1, 0)>>]}

\* A final page that the file ends in, behind its B-tree header.
Partial(page) == [page EXCEPT !.partial = TRUE]

\* Sequences over S of length lo..hi.
SeqsOf(S, lo, hi) == UNION {[1..n -> S] : n \in lo..hi}

\* ------------------------------------------------------------------ files
\* sig: "short" (fewer than 100 bytes, or no file), "bad" (100 bytes whose
\* first 16 are not the signature), "ok".  pageSize and dbsize are the header
\* fields pageSize and in_header_database_size; vacuum and reserved are the
\* header fields incremental_vacuum and unused_reserved_space.
File(sig, pageSize, dbsize, pages) ==
    [sig |-> sig, pageSize |-> pageSize, dbsize |-> dbsize, pages |-> pages,
     vacuum |-> 0, reserved |-> 0]

Sql1 == SqlV(<< <<"a", "INTEGER">> >>)
Sql2 == SqlV(<< <<"a", "INTEGER">>, <<"b", "TEXT">> >>)
\* CREATE TABLE t(a): the column entry is one word.
SqlOneWord == SqlV(<< <<"a">> >>)
\* CREATE TABLE t(a, b TEXT, PRIMARY KEY (a))
SqlMixed == SqlV(<< <<"a">>, <<"b", "TEXT">>, <<"PRIMARY", "KEY", "(a)">> >>)

PageNrs == 2..MaxPages

\* Page 1 of a database with the one table t1(a, b) rooted at page 2.
DefaultCatalog == LeafPage(<<CatRow("table", "t1", 2, Sql2)>>)

\* pages 3..MaxPages, each drawn from S
RestPages(S) == [3..MaxPages -> S]

Assemble(p1, p2, rest) ==
    [n \in 1..MaxPages |-> IF n = 1 THEN p1 ELSE IF n = 2 THEN p2 ELSE rest[n]]

\* Files that are not decoded past the header, or not past the page offsets.
HeaderFiles ==
    LET ps == Assemble(DefaultCatalog, LeafPage(<<CellA>>),
                       [n \in 3..MaxPages |-> LeafPage(<<CellA>>)])
    IN  {File("short", 512, MaxPages, ps), File("bad", 512, MaxPages, ps),
         File("ok", 0, MaxPages, ps), File("ok", 1, MaxPages, ps)}

\* The size the pages of the file have: the header's page size, where 1
\* stands for 65536 (a header page size of 0 is no size: 512 is taken).
PageBytes(f) ==
    IF f.pageSize = 1 THEN 65536 ELSE IF f.pageSize = 0 THEN 512 ELSE f.pageSize

\* Files whose length is no multiple of the page size: the last page is cut
\* inside its B-tree header or behind it.
PartialFiles ==
    {File("ok", 512, dbsize,
          Assemble(DefaultCatalog, LeafPage(<<CellA>>),
                   [n \in 3..MaxPages |-> IF n = MaxPages THEN last
                                          ELSE LeafPage(<<CellB>>)])) :
       dbsize \in {MaxPages - 1, MaxPages},
       last \in {TruncPage, Partial(OtherPage(0)), Partial(LeafPage(<<CellA>>)),
                 Partial(LeafPage(<< >>))}}

\* Files whose page 2 holds any list of up to MaxCells cells, sound or not.
CellSet == {CellA, CellB, CellNull, CellReserved, CellOutside, CellShort}

CellFiles ==
    {File("ok", 512, MaxPages,
          Assemble(DefaultCatalog, p2, [n \in 3..MaxPages |-> LeafPage(<<CellA>>)])) :
       p2 \in {LeafPage(cs) : cs \in SeqsOf(CellSet, 0, MaxCells)}
              \cup {LeafIndexPage(cs) : cs \in SeqsOf(CellSet, 0, MaxCells)}
              \cup {OverfullLeaf}}

\* Files with an overflowing cell on page 2 and any chain of next-page numbers
\* behind it, for a declared page count around the real one.
OverflowFiles ==
    {File("ok", 512, dbsize, Assemble(DefaultCatalog, p2, rest)) :
       dbsize \in (MaxPages - 1)..(MaxPages + 1),
       p2 \in {LeafPage(<<CellOvf(f)>>) : f \in 0..(MaxPages + 1)}
              \cup {LeafPage(<<CellOvf(f), CellA>>) : f \in 0..(MaxPages + 1)},
       rest \in RestPages({OtherPage(x) : x \in 0..(MaxPages + 1)}
                          \cup {LeafPage(<<CellA>>), TruncPage})}

\* Files with one or two tables in the catalog, a leaf or interior table page
\* at page 2 and leaves behind it.
Catalogs ==
    {LeafPage(<<CatRow("table", "t1", r1, s1)>>) :
       r1 \in 2..(MaxPages + 1), s1 \in {Sql1, Sql2}}
    \cup {LeafPage(<<CatRow("table", "t1", r1, s1), CatRow("table", "t2", r2, s2)>>) :
       r1 \in PageNrs, s1 \in {Sql1, Sql2}, r2 \in PageNrs, s2 \in {Sql1, Sql2}}

InteriorPages ==
    {InteriorPage(qty, << >>, rm) : qty \in {-1, 0}, rm \in PageNrs}
    \cup {InteriorPage(1, <<CellChild(c)>>, rm) : c \in PageNrs, rm \in PageNrs}
    \cup {InteriorPage(1, <<CellOutside>>, 2)}

TreeFiles ==
    {File("ok", 512, MaxPages, Assemble(cat, p2, rest)) :
       cat \in Catalogs,
       p2 \in InteriorPages \cup {LeafPage(<<CellA>>), LeafPage(<<CellB>>), LeafPage(<< >>)},
       rest \in RestPages({LeafPage(<<CellA>>), LeafPage(<<CellB>>)})}

\* Files whose catalog holds a CREATE TABLE text without a matched column
\* list, or one that gives an empty column list; the pages behind page 2
\* are leaves in no child list.
SchemaFiles ==
    {File("ok", 512, MaxPages, Assemble(cat, LeafPage(<<CellA>>), rest)) :
       cat \in {LeafPage(<<CatRow("table", "t1", 2, SqlUnbalanced)>>),
                LeafPage(<<CatRow("table", "t1", 2, SqlUnbalanced),
                           CatRow("table", "t2", 2, Sql2)>>),
                LeafPage(<<CatRow("table", "t1", 2, SqlOneWord)>>),
                LeafPage(<<CatRow("table", "t1", 2, SqlMixed)>>)},
       rest \in RestPages({LeafPage(<<CellA>>), LeafPage(<<CellNoFields>>)})}

\* Files whose catalog has grown beyond page 1: page 1 is an interior table
\* page, the pages behind it are its leaves and hold the catalog rows (of the
\* views v1 and v2), for a declared page count that is the number of pages or
\* one more.
CatalogTreeFiles ==
    {File("ok", 512, dbsize,
          Assemble(p1, LeafPage(<<CatRow("view", "v1", 0, Sql1)>>),
                   [n \in 3..MaxPages |-> LeafPage(<<CatRow("view", "v2", 0, Sql2)>>)])) :
       dbsize \in {MaxPages, MaxPages + 1},
       p1 \in {InteriorPage(0, << >>, rm) : rm \in PageNrs}
              \cup {InteriorPage(1, <<CellChild(c)>>, rm) : c \in PageNrs, rm \in PageNrs}}

\* Files whose page 2 is a leaf of table t1 with a row that holds NULLs.
NullFiles ==
    {File("ok", 512, MaxPages,
          Assemble(DefaultCatalog, LeafPage(cs),
                   [n \in 3..MaxPages |-> LeafPage(<<CellB>>)])) :
       cs \in {<<CellNull>>, <<CellNullLater>>, <<CellNullBoth>>,
               <<CellA, CellNullLater>>}}

\* Auto-vacuum files (incremental_vacuum = 1): page 2 is the pointer map, the
\* table t1 is rooted at the last page.
VacuumFiles ==
    {[File("ok", 512, MaxPages,
           Assemble(LeafPage(<<CatRow("table", "t1", MaxPages, Sql2)>>), p2,
                    [n \in 3..MaxPages |-> LeafPage(<<CellA>>)]))
        EXCEPT !.vacuum = 1] : p2 \in PtrMapPages}

\* Files whose page 2 is a leaf of table t1 with freeblocks (with a live cell
\* or with none), and files whose
\* page 2 is the interior root of t1 over the leaf page 3 with freeblocks.
FreeFiles ==
    {File("ok", 512, MaxPages,
          Assemble(DefaultCatalog, WithChain(p2, ch),
                   [n \in 3..MaxPages |-> LeafPage(<<CellB>>)])) :
       p2 \in {LeafPage(<<CellA>>)}, ch \in FreeChains \cup BadChains}
    \cup
    {File("ok", 512, MaxPages,
          Assemble(DefaultCatalog, WithChain(LeafPage(<< >>), ch),
                   [n \in 3..MaxPages |-> LeafPage(<<CellB>>)])) :
       ch \in {c \in FreeChains : c.fbOffset = 1}}
    \cup
    {File("ok", 512, MaxPages,
          Assemble(DefaultCatalog, InteriorPage(0, << >>, 3),
                   [n \in 3..MaxPages |->
                      IF n = 3 THEN WithChain(LeafPage(<<CellA>>), ch)
                      ELSE LeafPage(<<CellB>>)])) :
       ch \in {c \in FreeChains : c.fbOffset = 1}}

Files == HeaderFiles \cup CellFiles \cup OverflowFiles \cup TreeFiles
         \cup FreeFiles \cup PartialFiles \cup VacuumFiles \cup SchemaFiles
         \cup NullFiles \cup CatalogTreeFiles

\* ------------------------------------------------------------------ state
VARIABLES
    file,           \* the database file (never changes)
    pc,             \* position in __init__, then "done" / "stopped" / "crashed"
    raisedIn,       \* the function whose exception left __init__ ("" if none)
    data,           \* self.data: "unread", "none" (read failed) or "bytes"
    dbHeaderDict,   \* self.dbHeaderDict
    pageOffsets,    \* len(self.pageOffsets)
    pageNr,         \* loop counter of _readallDBPages
    cur,            \* dbpage under construction in _readDBPage
    pagenum,        \* loop variable of _getoverflowdata (-1 outside the loop)
    dbPages,        \* self.dbPages
    overflowpages,  \* self.overflowpages (read by membership only)
    dbSchema,       \* self.dbSchema, in insertion order
    hdr,            \* per page, the table header last printed by printTable
    opt,            \* self.opt (the options that are modelled)
    fbOffset,       \* pageHeader["fbOffset"] of the page being decoded, then
                    \* the loop variable of _readPageFreeSpace
    ptrMap,         \* self.ptrMap
    printed,        \* the rows printed by the last printTable / printDBData
    call,           \* a call of one of the decoder's pure functions
    ret             \* what that call returned

vars == <<file, pc, raisedIn, data, dbHeaderDict, pageOffsets, pageNr, cur,
          pagenum, dbPages, overflowpages, dbSchema, hdr, opt, fbOffset, ptrMap,
          printed, call, ret>>

SQLITE_SIGNATURE == "SQLite format 3\\0"

\* A slice of a page is written as the range lo..(hi - 1) of its bytes; the
\* empty slice is NoBytes.
NoBytes == [lo |-> 0, hi |-> 0]

NoPage ==
    [pageNr |-> 0, pageByte |-> 0, cellQty |-> 0, rmpointer |-> 0,
     pageType |-> "", isRootPage |-> FALSE, celldata |-> << >>,
     leafpages |-> << >>, deletedpages |-> << >>, schema |-> {},
     freespace |-> << >>, fs_celldata |-> << >>, unallocated |-> NoBytes]

NoHdr == [tblname |-> "", colheader |-> << >>]

\* Nothing printed: no rows, and the call did not raise.
NoOutput == [rows |-> << >>, raised |-> FALSE]

\* self.dbHeaderDict = dict() before _parseDBHeader
NoHeader ==
    [signature |-> "", pageSize |-> 0, in_header_database_size |-> 0,
     incremental_vacuum |-> 0, unused_reserved_space |-> 0]

\* No call of a pure function is under way.  A call: the function, and its
\* arguments (data, offset for _getVarIntOfs; payloadlen for the payload-size
\* step of _parseLeafTableCellHeader; code, the serial type, and data, the
\* payload from dataoffset on, for a turn of the field loop of _parseCell).
\* A return: val and len of _getVarIntOfs; size, the local payload size, and
\* reads, whether the first-overflow-page number is read behind it; k, the
\* Python type of the item a turn of the field loop appended, and val, the
\* item if it is an int.
NoCall == [fn |-> "", data |-> << >>, offset |-> 0, payloadlen |-> 0, code |-> 0]
NoRet ==
    [state |-> "", val |-> << >>, len |-> 0, size |-> 0, reads |-> FALSE, k |-> ""]

\* ------------------------------------------------------- pure decoders
\* Serial types whose value is read with struct.unpack on a fixed width.
UnpackedCodes == {1, 2, 4, 6, 7}

\* The field loop of _parseCell for a leaf-table cell: one item per code,
\* except that a reserved code (10, 11) falls into "else: pass".
RECURSIVE LeafTableFields(_, _)
LeafTableFields(c, i) ==
    IF i > Len(c.codes) THEN << >>
    ELSE LET code == c.codes[i]
             item == IF code = 0 THEN <<IntV(c.rid)>>
                     ELSE IF code = 3 THEN <<TextV("-")>>
                     ELSE IF code = 8 THEN <<TextV("0")>>
                     ELSE IF code = 9 THEN <<TextV("1")>>
                     ELSE IF code \in {10, 11} THEN << >>
                     ELSE <<c.vals[i]>>
         IN  item \o LeafTableFields(c, i + 1)

\* The field loop of _parseCell for a leaf-index cell.
RECURSIVE LeafIndexFields(_, _)
LeafIndexFields(c, i) ==
    IF i > Len(c.codes) THEN << >>
    ELSE LET code == c.codes[i]
             item == IF code \in {0, 3, 8, 9} THEN <<TextV("-")>>
                     ELSE IF code \in {10, 11} THEN << >>
                     ELSE <<c.vals[i]>>
         IN  item \o LeafIndexFields(c, i + 1)

\* The field loop of _parseFreeSpaceCell: the header is read without payload
\* length and record number (recordnum stays 0).
RECURSIVE FreeSpaceFields(_, _)
FreeSpaceFields(c, i) ==
    IF i > Len(c.codes) THEN << >>
    ELSE LET code == c.codes[i]
             item == IF code = 0 THEN <<IntV(0)>>
                     ELSE IF code \in {3, 8, 9} THEN <<TextV("-")>>
                     ELSE IF code \in {10, 11} THEN << >>
                     ELSE <<c.vals[i]>>
         IN  item \o FreeSpaceFields(c, i + 1)

\* _parseFreeSpaceCell raises: the block ends before the payload header, a
\* field is unpacked from a short slice, or a 48-bit integer is unpacked
\* with the 32-bit format.
FreeSpaceCellRaises(c) ==
    \/ c.ptr = "out"
    \/ \E i \in DOMAIN c.codes : c.codes[i] = 5
    \/ c.short /\ \E i \in DOMAIN c.codes : c.codes[i] \in {1, 2, 4, 6, 7}

\* A walk that _readPageFreeSpace does not do: the next-block number is
\* followed whatever it is.
NextFreeBlockFollow(fb, start) == start

\* _readPageFreeSpace: where the walk goes from the block at fb whose
\* next-block number is start.
NextFreeBlock(fb, start) == IF fb # start /\ start > 0 THEN start ELSE 0

hasFreespace(dbpage) == Len(dbpage.freespace) > 0

\* page[start:end] of a page of len bytes, for start >= 0: an end below 0
\* counts from the end of the page.
PySlice(len, start, end) ==
    LET e == IF end < 0 THEN (IF end + len < 0 THEN 0 ELSE end + len)
             ELSE IF end > len THEN len ELSE end
        b == IF start > len THEN len ELSE start
    IN  IF e <= b THEN NoBytes ELSE [lo |-> b, hi |-> e]

\* The bytes the slice data[offset : offset + pageSize] has for the page.
PageLen(p, pageSize) == IF p.partial THEN 100 ELSE pageSize

\* _readPageUnallocated
ReadPageUnallocated(dbpage, p, len) ==
    LET start ==
            IF dbpage.pageNr = 1 /\ dbpage.pageByte # INTERIOR_TABLE_BTREE_PAGE
            THEN 108 + dbpage.cellQty * 2
            ELSE IF dbpage.pageNr = 1 /\ dbpage.pageByte = INTERIOR_TABLE_BTREE_PAGE
            THEN 112 + dbpage.cellQty * 2
            ELSE IF dbpage.pageByte = INTERIOR_TABLE_BTREE_PAGE
            THEN 12 + dbpage.cellQty * 2
            ELSE 8 + dbpage.cellQty * 2
        end == p.cellOffset - start
    IN  PySlice(len, start, end)

\* struct.unpack on a slice that came back short raises struct.error.
FieldsRaise(c) == c.short /\ \E i \in DOMAIN c.codes : c.codes[i] \in UnpackedCodes

\* _parseLeafTableCellHeader: the first-overflow-page number it returns.
OverflowPageNum(c, dbsize) ==
    IF c.ovf <= 1 \/ c.ovf >= dbsize THEN 0 ELSE c.ovf

\* The first four bytes of a page as a page number.  On a B-tree page the
\* first byte is the page kind, so the number is at least pageByte * 2^24.
NextOf(p) == IF p.pageByte = 0 THEN p.next ELSE p.pageByte * 16777216

\* _parseCell by page kind: the decoded cell.
ParsedCell(c, pageByte) ==
    IF pageByte = LEAF_TABLE_BTREE_PAGE THEN LeafTableFields(c, 1)
    ELSE IF pageByte = LEAF_INDEX_BTREE_PAGE THEN LeafIndexFields(c, 1)
    ELSE IF pageByte = INTERIOR_TABLE_BTREE_PAGE THEN <<IntV(c.child), IntV(c.rid)>>
    ELSE << >>

\* _parseCell raises: the cell's first byte is not in the file, or a field
\* is unpacked from a short slice.
ParseCellRaises(c, pageByte) ==
    \/ c.ptr = "out"
    \/ pageByte \in {LEAF_TABLE_BTREE_PAGE, LEAF_INDEX_BTREE_PAGE} /\ FieldsRaise(c)

\* _readLeafPageList: the left-child pointers in cell-pointer order, then
\* the right-most pointer.  range(0, cellQty*2, 2) is empty for cellQty <= 0.
ReadLeafPageList(p) ==
    [i \in 1..(IF p.cellQty > 0 THEN p.cellQty ELSE 0) |-> p.cells[i].child]
        \o <<p.rmpointer>>

ReadLeafPageListRaises(p) ==
    \E i \in 1..(IF p.cellQty > 0 THEN p.cellQty ELSE 0) :
        i > Len(p.cells) \/ p.cells[i].ptr = "out"

\* The pageType chain of _readDBPage.
PageTypeOf(pageByte, n, vacuum) ==
    IF pageByte = INTERIOR_INDEX_BTREE_PAGE THEN "interior index b-tree"
    ELSE IF pageByte = INTERIOR_TABLE_BTREE_PAGE THEN "interior table b-tree"
    ELSE IF pageByte = LEAF_INDEX_BTREE_PAGE THEN "leaf index b-tree"
    ELSE IF pageByte = LEAF_TABLE_BTREE_PAGE THEN "leaf table b-tree"
    ELSE IF n = 2 /\ vacuum > 0 THEN "pointer map"
    ELSE "Unknown"

\* _readDBPage calls _readPointerMap for page 2 of an auto-vacuum file, before
\* it parses the page header: the entries are appended to self.ptrMap.
ReadPointerMap(map, n, p, vacuum) ==
    IF n = 2 /\ vacuum > 0 THEN map \o p.ptrmap ELSE map

hasPtrMap == Len(ptrMap) > 0

IsBtree(pageByte) ==
    pageByte \in {LEAF_TABLE_BTREE_PAGE, LEAF_INDEX_BTREE_PAGE,
                  INTERIOR_TABLE_BTREE_PAGE, INTERIOR_INDEX_BTREE_PAGE}

hasLeafPages(dbpage) == Len(dbpage.leafpages) > 0
hasCelldata(dbpage) == Len(dbpage.celldata) > 0
hasDeleted(dbpage) == Len(dbpage.deletedpages) > 0
isRootPage(dbpage) == dbpage.isRootPage = TRUE

\* --------------------------------------------------------------- schema
\* The column loop of _parseDBSchema over the comma-separated entries: an
\* empty entry and one starting with PRIMARY or UNIQUE are skipped; an entry
\* of two or more words gives (name, type); an entry of one word gives none.
RECURSIVE ColumnList(_, _)
ColumnList(entries, i) ==
    IF i > Len(entries) THEN << >>
    ELSE LET e == entries[i]
             item == IF Len(e) = 0 THEN << >>
                     ELSE IF e[1] \in {"PRIMARY", "UNIQUE"} THEN << >>
                     ELSE IF Len(e) >= 2 THEN << <<e[1], e[2]>> >>
                     ELSE << >>
         IN  item \o ColumnList(entries, i + 1)

\* _findSQLCmd returns "ERROR" when no matched parentheses are found.
FindSQLCmdError(sql) == sql = SqlUnbalanced

\* The rows _parseDBSchema reads: page 1's cells, then those of its leaf
\* pages below the declared page count.
RECURSIVE LeafRows(_, _, _, _)
LeafRows(pages, leafpages, dbsize, i) ==
    IF i > Len(leafpages) THEN << >>
    ELSE LET lp == leafpages[i]
             rows == IF lp < dbsize /\ lp \in DOMAIN pages /\ hasCelldata(pages[lp])
                     THEN pages[lp].celldata ELSE << >>
         IN  rows \o LeafRows(pages, leafpages, dbsize, i + 1)

SchemaRows(pages, dbsize) ==
    pages[1].celldata
        \o (IF hasLeafPages(pages[1])
            THEN LeafRows(pages, pages[1].leafpages, dbsize, 1) ELSE << >>)

\* self.dbPages[leafpage] raises KeyError for a leaf page that is no page.
SchemaRowsRaise(pages, dbsize) ==
    /\ hasLeafPages(pages[1])
    /\ \E i \in DOMAIN pages[1].leafpages :
          LET lp == pages[1].leafpages[i] IN lp < dbsize /\ lp \notin DOMAIN pages

IsSqlType(v) == v.k = "str" /\ v.s \in sql_type

\* table[0], table[1], table[3], table[4] raise IndexError on a short row;
\* _findSQLCmd raises on a value that is no str.
RowRaises(row) ==
    \/ Len(row) = 0
    \/ /\ IsSqlType(row[1])
       /\ \/ Len(row) < 4
          \/ row[1].s = "table" /\ (Len(row) < 5 \/ row[5].k # "str")

\* columnsdic[name] = dbtable: a dict keeps the position of a key it has.
DictPut(d, t) ==
    IF \E i \in DOMAIN d : d[i].name = t.name
    THEN [i \in DOMAIN d |-> IF d[i].name = t.name THEN t ELSE d[i]]
    ELSE Append(d, t)

\* The row loop of _parseDBSchema.
RECURSIVE ParseDBSchemaRows(_, _, _)
ParseDBSchemaRows(rows, i, d) ==
    IF i > Len(rows) THEN d
    ELSE LET row == rows[i] IN
         IF ~IsSqlType(row[1]) THEN ParseDBSchemaRows(rows, i + 1, d)
         ELSE IF row[1].s = "table" /\ FindSQLCmdError(row[5])
              THEN ParseDBSchemaRows(rows, i + 1, d)
         ELSE ParseDBSchemaRows(rows, i + 1,
                  DictPut(d, [type |-> row[1].s, name |-> row[2], rootpage |-> row[4],
                              schema |-> IF row[1].s = "table"
                                         THEN ColumnList(row[5].q, 1) ELSE << >>]))

\* _setSchemaForRootPages, table by table in dictionary order.
ColHeader(schema) == [i \in DOMAIN schema |-> schema[i][1]]

AnnotatesRoot(t) == t.rootpage.k = "int" /\ t.type = "table"

RECURSIVE SetSchema(_, _, _)
SetSchema(pages, d, i) ==
    IF i > Len(d) THEN pages
    ELSE IF ~AnnotatesRoot(d[i]) \/ d[i].rootpage.i \notin DOMAIN pages
         THEN SetSchema(pages, d, i + 1)
    ELSE SetSchema([pages EXCEPT ![d[i].rootpage.i] =
                       [@ EXCEPT !.schema = {[name |-> d[i].name.s,
                                              colheader |-> ColHeader(d[i].schema)]},
                                 !.isRootPage = TRUE]],
                   d, i + 1)

\* self.dbPages[rootpage] raises KeyError for a root page that is no page.
SetSchemaRaises(pages, d) ==
    \E i \in DOMAIN d : AnnotatesRoot(d[i]) /\ d[i].rootpage.i \notin DOMAIN pages

\* ------------------------------------------------------- orphan remapping
\* _findLPageinRPage(n) # -1
FindLPageinRPage(pages, n) ==
    \E p \in DOMAIN pages :
        /\ pages[p].pageByte = INTERIOR_TABLE_BTREE_PAGE
        /\ \E i \in DOMAIN pages[p].leafpages : pages[p].leafpages[i] = n

\* A matching that _findMatchingSchema does not do: the root pages of all
\* tables, whatever the number of their columns.
RECURSIVE FindMatchingSchemaAnyWidth(_, _, _)
FindMatchingSchemaAnyWidth(celldata, d, i) ==
    IF i > Len(d) THEN << >>
    ELSE (IF d[i].type = "table" THEN <<d[i].rootpage>> ELSE << >>)
         \o FindMatchingSchemaAnyWidth(celldata, d, i + 1)

\* _findMatchingSchema: the root pages of the tables with as many columns as
\* the first cell has fields, in dictionary order.
RECURSIVE FindMatchingSchema(_, _, _)
FindMatchingSchema(celldata, d, i) ==
    IF i > Len(d) THEN << >>
    ELSE (IF d[i].type = "table" /\ Len(celldata[1]) = Len(d[i].schema)
          THEN <<d[i].rootpage>> ELSE << >>)
         \o FindMatchingSchema(celldata, d, i + 1)

\* _addLeafPage2RootPage: a root page that is no page is passed over.
RECURSIVE AddLeafPage2RootPage(_, _, _, _)
AddLeafPage2RootPage(pages, n, schemalist, i) ==
    IF i > Len(schemalist) THEN pages
    ELSE LET r == schemalist[i] IN
         IF r.k = "int" /\ r.i \in DOMAIN pages
         THEN AddLeafPage2RootPage(
                  [pages EXCEPT ![r.i].deletedpages = Append(@, n)], n, schemalist, i + 1)
         ELSE AddLeafPage2RootPage(pages, n, schemalist, i + 1)

\* The page loop of _lPagesWithoutRoot, from page n on.
RECURSIVE LPagesWithoutRoot(_, _, _)
LPagesWithoutRoot(pages, d, n) ==
    IF n \notin DOMAIN pages THEN pages
    ELSE IF /\ pages[n].pageByte = LEAF_TABLE_BTREE_PAGE
            /\ ~FindLPageinRPage(pages, pages[n].pageNr)
            /\ pages[n].cellQty > 0
         THEN LPagesWithoutRoot(
                  AddLeafPage2RootPage(pages, pages[n].pageNr,
                                       FindMatchingSchema(pages[n].celldata, d, 1), 1),
                  d, n + 1)
         ELSE LPagesWithoutRoot(pages, d, n + 1)

\* ------------------------------------------------------------ construction
\* The options the parser is constructed with.
Options(f) ==
    IF f \in FreeFiles THEN {[freespace |-> b] : b \in BOOLEAN}
    ELSE {[freespace |-> FALSE]}

Init ==
    /\ file \in Files
    /\ pc = "readDBFile"
    /\ raisedIn = ""
    /\ data = "unread"
    /\ dbHeaderDict = NoHeader
    /\ pageOffsets = 0
    /\ pageNr = 0
    /\ cur = NoPage
    /\ pagenum = -1
    /\ dbPages = << >>
    /\ overflowpages = {}
    /\ dbSchema = << >>
    /\ hdr = [n \in 1..MaxPages |-> NoHdr]
    /\ opt \in Options(file)
    /\ fbOffset = 0
    /\ ptrMap = << >>
    /\ printed = NoOutput
    /\ call = NoCall
    /\ ret = NoRet

\* An exception leaves __init__: no parser object results.
Raise(fn) ==
    /\ pc' = "crashed"
    /\ raisedIn' = fn

\* A call sequence that __init__ does not have: the schema is reconstructed
\* before the overflow pages are marked.
NextPhaseSchemaFirst(phase) ==
    CASE phase = "readDBFile" -> "parseDBHeader"
      [] phase = "parseDBHeader" -> "isSqliteDB"
      [] phase = "isSqliteDB" -> "getPageOffsets"
      [] phase = "getPageOffsets" -> "readallDBPages"
      [] phase = "readallDBPages" -> "parseDBSchema"
      [] phase = "parseDBSchema" -> "markOverflowPages"
      [] phase = "markOverflowPages" -> "setSchemaForRootPages"
      [] phase = "setSchemaForRootPages" -> "lPagesWithoutRoot"
      [] phase = "lPagesWithoutRoot" -> "done"

\* The call sequence of __init__.
NextPhase(phase) ==
    CASE phase = "readDBFile" -> "parseDBHeader"
      [] phase = "parseDBHeader" -> "isSqliteDB"
      [] phase = "isSqliteDB" -> "getPageOffsets"
      [] phase = "getPageOffsets" -> "readallDBPages"
      [] phase = "readallDBPages" -> "markOverflowPages"
      [] phase = "markOverflowPages" -> "parseDBSchema"
      [] phase = "parseDBSchema" -> "setSchemaForRootPages"
      [] phase = "setSchemaForRootPages" -> "lPagesWithoutRoot"
      [] phase = "lPagesWithoutRoot" -> "done"

\* _readDBFile: a file that cannot be opened leaves self.data = None.
ReadDBFile ==
    /\ pc = "readDBFile"
    /\ data' = "bytes"
    /\ pc' = NextPhase(pc)
    /\ UNCHANGED <<file, opt, fbOffset, ptrMap, printed, call, ret,
                   raisedIn, dbHeaderDict, pageOffsets, pageNr, cur, pagenum,
                   dbPages, overflowpages, dbSchema, hdr>>

\* _unpackDBHeader: unpack of fewer than 100 bytes raises, is caught, and the
\* text "No valid SQLite database" is zipped with the keys letter by letter.
UnpackDBHeader(f) ==
    IF f.sig = "short"
    THEN [signature |-> "N", pageSize |-> "o", in_header_database_size |-> " ",
          incremental_vacuum |-> " ", unused_reserved_space |-> " "]
    ELSE [signature |-> IF f.sig = "ok" THEN SQLITE_SIGNATURE ELSE "not SQLite",
          pageSize |-> f.pageSize, in_header_database_size |-> f.dbsize,
          incremental_vacuum |-> f.vacuum, unused_reserved_space |-> f.reserved]

ParseDBHeader ==
    /\ pc = "parseDBHeader"
    /\ dbHeaderDict' = UnpackDBHeader(file)
    /\ pc' = NextPhase(pc)
    /\ UNCHANGED <<file, opt, fbOffset, ptrMap, printed, call, ret,
                   raisedIn, data, pageOffsets, pageNr, cur, pagenum,
                   dbPages, overflowpages, dbSchema, hdr>>

isSqliteDB == dbHeaderDict.signature = SQLITE_SIGNATURE

\* "if self.isSqliteDB() == False: return None"
CheckSqliteDB ==
    /\ pc = "isSqliteDB"
    /\ pc' = IF isSqliteDB THEN NextPhase(pc) ELSE "stopped"
    /\ UNCHANGED <<file, opt, fbOffset, ptrMap, printed, call, ret,
                   raisedIn, data, dbHeaderDict, pageOffsets, pageNr, cur,
                   pagenum, dbPages, overflowpages, dbSchema, hdr>>

\* The number of offsets in range(0, len(data), pageSize): one per started
\* run of pageSize bytes (a partial final page is such a run).
PageOffsetsOf(f, pageSize) ==
    IF pageSize = PageBytes(f) THEN Len(f.pages)
    ELSE (Len(f.pages) * PageBytes(f) + pageSize - 1) \div pageSize

\* _parsePageHeader raises: the slice data[offset : offset + pageSize] ends
\* before the 8 header bytes do (for page 1 they lie at 100..107).
HeaderSliceShort(n, p, pageSize) ==
    p.trunc \/ pageSize < (IF n = 1 THEN 108 ELSE 8)

\* _getPageOffsets: range(0, len(data), pageSize) raises for a step of 0.
GetPageOffsets ==
    /\ pc = "getPageOffsets"
    /\ IF dbHeaderDict.pageSize = 0
       THEN Raise("_getPageOffsets") /\ UNCHANGED pageOffsets
       ELSE /\ pageOffsets' = PageOffsetsOf(file, dbHeaderDict.pageSize)
            /\ pc' = NextPhase(pc)
            /\ UNCHANGED raisedIn
    /\ UNCHANGED <<file, opt, fbOffset, ptrMap, printed, call, ret,
                   data, dbHeaderDict, pageNr, cur, pagenum, dbPages,
                   overflowpages, dbSchema, hdr>>

\* _readDBPage behind its cells: when the page has no cell left to decode,
\* the unallocated area is sliced, and the freeblock walk is next.
CellsRead(dbpage, nextpc) ==
    IF nextpc = "readPageFreeSpace"
    THEN [dbpage EXCEPT
            !.unallocated =
                ReadPageUnallocated(dbpage, file.pages[dbpage.pageNr],
                    PageLen(file.pages[dbpage.pageNr], dbHeaderDict.pageSize))]
    ELSE dbpage

\* _readallDBPages, one page after the other: _readDBPage up to its cells.
BeginPage ==
    /\ pc = "readallDBPages"
    /\ pageNr < pageOffsets
    /\ LET n == pageNr + 1
           p == file.pages[n]
       IN  IF HeaderSliceShort(n, p, dbHeaderDict.pageSize)
           THEN Raise("_parsePageHeader") /\ UNCHANGED <<pageNr, cur, fbOffset>>
           ELSE IF p.pageByte = INTERIOR_TABLE_BTREE_PAGE /\ ReadLeafPageListRaises(p)
           THEN Raise("_readLeafPageList") /\ UNCHANGED <<pageNr, cur, fbOffset>>
           ELSE /\ pageNr' = n
                /\ fbOffset' = p.fbOffset
                /\ pc' = IF IsBtree(p.pageByte) /\ p.cellQty > 0
                         THEN "readPageCells" ELSE "readPageFreeSpace"
                /\ cur' = CellsRead(
                             [NoPage EXCEPT
                                !.pageNr = n,
                                !.pageByte = p.pageByte,
                                !.cellQty = p.cellQty,
                                !.rmpointer = p.rmpointer,
                                !.pageType = PageTypeOf(p.pageByte, n,
                                                dbHeaderDict.incremental_vacuum),
                                !.leafpages = IF p.pageByte = INTERIOR_TABLE_BTREE_PAGE
                                              THEN ReadLeafPageList(p) ELSE << >>],
                             pc')
                /\ UNCHANGED raisedIn
    /\ ptrMap' = ReadPointerMap(ptrMap, pageNr + 1, file.pages[pageNr + 1],
                                dbHeaderDict.incremental_vacuum)
    /\ UNCHANGED <<file, opt, printed, call, ret,
                   data, dbHeaderDict, pageOffsets, pagenum, dbPages,
                   overflowpages, dbSchema, hdr>>

\* The cell _readPageCells is about to decode.
CurCell == file.pages[pageNr].cells[Len(cur.celldata) + 1]

AfterCell(celldata) ==
    IF Len(celldata) = cur.cellQty THEN "readPageFreeSpace" ELSE "readPageCells"

\* One turn of the loop of _readPageCells: _parseCell on the next cell, up to
\* the call of _getoverflowdata if the cell has overflow pages.
ParseCell ==
    /\ pc = "readPageCells"
    /\ IF Len(cur.celldata) + 1 > Len(file.pages[pageNr].cells)
       THEN Raise("_readPageCells") /\ UNCHANGED <<cur, pagenum>>
       ELSE IF CurCell.ptr = "out"
       THEN Raise("_parseCell") /\ UNCHANGED <<cur, pagenum>>
       ELSE IF /\ cur.pageByte = LEAF_TABLE_BTREE_PAGE
               /\ OverflowPageNum(CurCell, dbHeaderDict.in_header_database_size) > 0
       THEN /\ pagenum' =
                 OverflowPageNum(CurCell, dbHeaderDict.in_header_database_size) - 1
            /\ pc' = "getoverflowdata"
            /\ UNCHANGED <<cur, raisedIn>>
       ELSE IF ParseCellRaises(CurCell, cur.pageByte)
       THEN Raise("_parseCell") /\ UNCHANGED <<cur, pagenum>>
       ELSE LET celldata == Append(cur.celldata, ParsedCell(CurCell, cur.pageByte))
            IN  /\ cur' = CellsRead([cur EXCEPT !.celldata = celldata],
                                     AfterCell(celldata))
                /\ pc' = AfterCell(celldata)
                /\ UNCHANGED <<pagenum, raisedIn>>
    /\ UNCHANGED <<file, opt, fbOffset, ptrMap, printed, call, ret,
                   data, dbHeaderDict, pageOffsets, pageNr, dbPages,
                   overflowpages, dbSchema, hdr>>

\* The loop condition of _getoverflowdata.
OverflowLoop ==
    pagenum > 0 /\ pagenum < dbHeaderDict.in_header_database_size

\* One turn of the loop of _getoverflowdata: the page is recorded, its first
\* four bytes give the next page.  unpack raises if the page is not in the file.
OverflowStep ==
    /\ pc = "getoverflowdata"
    /\ OverflowLoop
    /\ overflowpages' = overflowpages \cup {pagenum + 1}
    /\ IF pagenum + 1 > Len(file.pages) \/ file.pages[pagenum + 1].trunc
       THEN Raise("_getoverflowdata") /\ UNCHANGED pagenum
       ELSE /\ pagenum' = NextOf(file.pages[pagenum + 1]) - 1
            /\ UNCHANGED <<pc, raisedIn>>
    /\ UNCHANGED <<file, opt, fbOffset, ptrMap, printed, call, ret,
                   data, dbHeaderDict, pageOffsets, pageNr, cur, dbPages,
                   dbSchema, hdr>>

\* _getoverflowdata returns; _parseCell decodes the fields of the payload.
OverflowReturn ==
    /\ pc = "getoverflowdata"
    /\ ~OverflowLoop
    /\ pagenum' = -1
    /\ IF ParseCellRaises(CurCell, cur.pageByte)
       THEN Raise("_parseCell") /\ UNCHANGED cur
       ELSE LET celldata == Append(cur.celldata, ParsedCell(CurCell, cur.pageByte))
            IN  /\ cur' = CellsRead([cur EXCEPT !.celldata = celldata],
                                     AfterCell(celldata))
                /\ pc' = AfterCell(celldata)
                /\ UNCHANGED raisedIn
    /\ UNCHANGED <<file, opt, fbOffset, ptrMap, printed, call, ret,
                   data, dbHeaderDict, pageOffsets, dbPages, pageNr,
                   overflowpages, dbSchema, hdr>>

\* One turn of the loop of _readPageFreeSpace.  An exception in the turn (no four bytes at the offset,
\* or _parseFreeSpaceCell raises) is caught and ends the walk with nothing
\* appended.  A block of size 0 or less appends the cell decoded in the turn
\* before (the empty list in the first turn).
FreeBlockStep ==
    /\ pc = "readPageFreeSpace"
    /\ LET p == file.pages[pageNr]
           fb == fbOffset
       IN  /\ fb > 0
           /\ Len(cur.freespace) < MaxWalk
           /\ IF fb \notin DOMAIN p.blocks
              THEN /\ fbOffset' = 0
                   /\ UNCHANGED cur
              ELSE LET b == p.blocks[fb]
                       n == Len(cur.fs_celldata)
                       fs_data == IF b.size > 0 THEN FreeSpaceFields(b.cell, 1)
                                  ELSE IF n > 0 THEN cur.fs_celldata[n]
                                  ELSE << >>
                   IN  IF b.size > 0 /\ FreeSpaceCellRaises(b.cell)
                       THEN /\ fbOffset' = 0
                            /\ UNCHANGED cur
                       ELSE /\ fbOffset' = NextFreeBlock(fb, b.start)
                            /\ cur' = [cur EXCEPT
                                         !.freespace =
                                             Append(@, IF b.size > 0 THEN fb ELSE 0),
                                         !.fs_celldata = Append(@, fs_data)]
    /\ UNCHANGED <<file, opt, ptrMap, printed, call, ret,
                   pc, raisedIn, data, dbHeaderDict, pageOffsets, pageNr,
                   pagenum, dbPages, overflowpages, dbSchema, hdr>>

\* The loop of _readPageFreeSpace ends; _readDBPage stores the two lists.
FreeSpaceReturn ==
    /\ pc = "readPageFreeSpace"
    /\ fbOffset <= 0
    /\ pc' = "endPage"
    /\ fbOffset' = 0
    /\ UNCHANGED <<file, opt, ptrMap, printed, call, ret,
                   cur, raisedIn, data, dbHeaderDict, pageOffsets, pageNr,
                   pagenum, dbPages, overflowpages, dbSchema, hdr>>

\* _readDBPage returns; _readallDBPages stores the page.
EndPage ==
    /\ pc = "endPage"
    /\ dbPages' = [n \in 1..pageNr |-> IF n = pageNr THEN cur ELSE dbPages[n]]
    /\ cur' = NoPage
    /\ pc' = IF pageNr = pageOffsets THEN NextPhase("readallDBPages")
             ELSE "readallDBPages"
    /\ UNCHANGED <<file, opt, fbOffset, ptrMap, printed, call, ret,
                   raisedIn, data, dbHeaderDict, pageOffsets, pageNr, pagenum,
                   overflowpages, dbSchema, hdr>>

\* A marking that _markOverflowPages does not do: one that leaves the type
\* of a B-tree page alone.
MarkedPageUnlessBtree(dbpage, ovf) ==
    IF dbpage.pageNr \in ovf /\ ~IsBtree(dbpage.pageByte)
    THEN [dbpage EXCEPT !.pageType = "Overflow Page"]
    ELSE dbpage

\* _markOverflowPages
MarkedPage(dbpage, ovf) ==
    IF dbpage.pageNr \in ovf THEN [dbpage EXCEPT !.pageType = "Overflow Page"]
    ELSE dbpage

MarkOverflowPages ==
    /\ pc = "markOverflowPages"
    /\ dbPages' = [n \in DOMAIN dbPages |-> MarkedPage(dbPages[n], overflowpages)]
    /\ pc' = NextPhase(pc)
    /\ UNCHANGED <<file, opt, fbOffset, ptrMap, printed, call, ret,
                   raisedIn, data, dbHeaderDict, pageOffsets, pageNr, cur,
                   pagenum, overflowpages, dbSchema, hdr>>

\* self.dbSchema = self._parseDBSchema(1).  "tables += ..." extends page 1's
\* own cell list when page 1 has leaf pages.
ParseDBSchema ==
    /\ pc = "parseDBSchema"
    /\ LET dbsize == dbHeaderDict.in_header_database_size
           rows == SchemaRows(dbPages, dbsize)
       IN  IF SchemaRowsRaise(dbPages, dbsize)
              \/ \E i \in DOMAIN rows : RowRaises(rows[i])
           THEN Raise("_parseDBSchema") /\ UNCHANGED <<dbSchema, dbPages>>
           ELSE /\ dbSchema' = ParseDBSchemaRows(rows, 1, << >>)
                /\ dbPages' = [dbPages EXCEPT ![1].celldata = rows]
                /\ pc' = NextPhase(pc)
                /\ UNCHANGED raisedIn
    /\ UNCHANGED <<file, opt, fbOffset, ptrMap, printed, call, ret,
                   data, dbHeaderDict, pageOffsets, pageNr, cur, pagenum,
                   overflowpages, hdr>>

SetSchemaForRootPages ==
    /\ pc = "setSchemaForRootPages"
    /\ IF SetSchemaRaises(dbPages, dbSchema)
       THEN Raise("_setSchemaForRootPages") /\ UNCHANGED dbPages
       ELSE /\ dbPages' = SetSchema(dbPages, dbSchema, 1)
            /\ pc' = NextPhase(pc)
            /\ UNCHANGED raisedIn
    /\ UNCHANGED <<file, opt, fbOffset, ptrMap, printed, call, ret,
                   data, dbHeaderDict, pageOffsets, pageNr, cur, pagenum,
                   overflowpages, dbSchema, hdr>>

LPagesWithoutRootPass ==
    /\ pc = "lPagesWithoutRoot"
    /\ dbPages' = LPagesWithoutRoot(dbPages, dbSchema, 1)
    /\ pc' = NextPhase(pc)
    /\ UNCHANGED <<file, opt, fbOffset, ptrMap, printed, call, ret,
                   raisedIn, data, dbHeaderDict, pageOffsets, pageNr, cur,
                   pagenum, overflowpages, dbSchema, hdr>>

\* ------------------------------------------------------- pure functions
\* Numbers of up to 64 and more bits are written as their binary digits, most
\* significant first, without leading zeros (0 is the empty sequence).
Bits(n, w) == [i \in 1..w |-> (n \div (2 ^ (w - i))) % 2]

RECURSIVE Norm(_)
Norm(b) == IF b = << >> THEN << >> ELSE IF b[1] = 0 THEN Norm(Tail(b)) ELSE b

\* _getVarIntOfs, the first loop: the bytes from offset + n on up to the first
\* one with the high bit clear are counted.  ord() of the empty slice behind
\* the end of the buffer raises TypeError (the result 0 stands for that).
RECURSIVE VarIntLen(_, _, _)
VarIntLen(buf, offset, n) ==
    IF offset + n >= Len(buf) THEN 0
    ELSE IF buf[offset + n + 1] >= 128 THEN VarIntLen(buf, offset, n + 1)
    ELSE n + 1

\* _getVarIntOfs, the second loop from the j-th of varintlen bytes on: the
\* sum of (byteval - 128) * 2^(i*7) for i = varintlen - j > 0 and of byteval
\* for i = 0.  Every addend is below 2^7 times its power of two, so the sum
\* is the sequence of the 7-digit addends.
RECURSIVE VarIntVal(_, _, _, _)
VarIntVal(buf, offset, varintlen, j) ==
    IF j > varintlen THEN << >>
    ELSE LET byteval == buf[offset + j]
         IN  Bits(IF j = varintlen THEN byteval ELSE byteval - 128, 7)
                 \o VarIntVal(buf, offset, varintlen, j + 1)

GetVarIntOfs(buf, offset) ==
    LET varintlen == VarIntLen(buf, offset, 0)
    IN  IF varintlen = 0 THEN [NoRet EXCEPT !.state = "raised"]
        ELSE [NoRet EXCEPT !.state = "returned",
                           !.val = Norm(VarIntVal(buf, offset, varintlen, 1)),
                           !.len = varintlen]

\* _getPayloadSizeInCell
GetPayloadSizeInCell(payloadSize, header) ==
    LET usableSize == header.pageSize
        maxLocal == usableSize - 35
        minLocal == (((usableSize - 12) * 32) \div 255) - 23
        localSize == minLocal + ((payloadSize - minLocal) % (usableSize - 4))
    IN  IF payloadSize <= maxLocal THEN payloadSize
        ELSE IF localSize > maxLocal THEN minLocal
        ELSE localSize

\* _parseLeafTableCellHeader: the overflow page number is read behind the
\* local payload when the payload is longer than this.
ReadsOverflowNumber(payloadlen, header) ==
    payloadlen > header.pageSize - header.unused_reserved_space - 35

\* An int of any size is written as its digits to the base 256, most
\* significant first, the first of them signed (-128..127): the shortest such
\* sequence that gives the int.
RECURSIVE Canon(_)
Canon(l) ==
    IF Len(l) >= 2 /\ l[1] = 0 /\ l[2] < 128 THEN Canon(Tail(l))
    ELSE IF Len(l) >= 2 /\ l[1] = -1 /\ l[2] >= 128
    THEN Canon(<<l[2] - 256>> \o Tail(Tail(l)))
    ELSE l

\* unpack(">h" | ">i" | ">q", x)[0]: the bytes as a signed big-endian int.
UnpackSigned(x) == Canon(<<IF x[1] >= 128 THEN x[1] - 256 ELSE x[1]>> \o Tail(x))

\* ord(unpack(">c", x)[0]): the byte as a number 0..255.
OrdUnpackChar(x) == Canon(<<0, x[1]>>)

\* _unpack48: int.from_bytes(x, byteorder='big'), of a slice of any length.
unpack48(x) == Canon(<<0>> \o x)

\* The bytes a field of the serial type takes (field[1]).
FieldWidth(code) ==
    CASE code = 1 -> 1 [] code = 2 -> 2 [] code = 3 -> 3 [] code = 4 -> 4
      [] code = 5 -> 6 [] code = 6 -> 8 [] OTHER -> 0

\* data[dataoffset : dataoffset + n] for dataoffset = 0
Slice(x, n) == SubSeq(x, 1, IF n < Len(x) THEN n ELSE Len(x))

\* One turn of the field loop of _parseCell for a leaf-table cell and an
\* integer serial type: the item appended.  unpack on a slice that came back
\* short raises struct.error.
ParseIntField(code, x) ==
    LET w == FieldWidth(code)
        int(v) == [NoRet EXCEPT !.state = "returned", !.k = "int", !.val = v]
    IN  IF code = 3 THEN [NoRet EXCEPT !.state = "returned", !.k = "str"]
        ELSE IF code = 5 THEN int(unpack48(Slice(x, 6)))
        ELSE IF Len(x) < w THEN [NoRet EXCEPT !.state = "raised"]
        ELSE IF code = 1 THEN int(OrdUnpackChar(Slice(x, 1)))
        ELSE int(UnpackSigned(Slice(x, w)))

\* The payloads the field loop is called on: up to MaxBytes bytes, a first
\* byte and the others alike.
FieldBuffers ==
    {<< >>} \cup
    {<<h>> \o [i \in 1..(n - 1) |-> r] :
       n \in 1..MaxBytes, h \in {0, 1, 127, 128, 255}, r \in {0, 255}}

FieldCalls ==
    {[NoCall EXCEPT !.fn = "_parseCell", !.code = c, !.data = b] :
       c \in 1..6, b \in FieldBuffers}

\* The buffers _getVarIntOfs is called on: k bytes with the high bit set (the
\* first of them f, the others c), a byte t, and a tail.
VarIntBuffers ==
    {<<t>> \o tail : t \in {0, 1, 127, 128, 255}, tail \in {<< >>, <<5>>}}
    \cup {<<f>> \o [i \in 1..(k - 1) |-> c] \o <<t>> \o tail :
            k \in 1..MaxRun, f \in {128, 129, 191, 255}, c \in {128, 192, 255},
            t \in {0, 1, 127, 200}, tail \in {<< >>, <<5>>}}

VarIntCalls ==
    {[NoCall EXCEPT !.fn = "_getVarIntOfs", !.data = b, !.offset = o] :
       b \in VarIntBuffers, o \in 0..1}

PayloadCalls ==
    {[NoCall EXCEPT !.fn = "_getPayloadSizeInCell", !.payloadlen = n] :
       n \in 0..MaxPayload}

\* The headers the payload size is computed under.
PayloadHeaders ==
    {[NoHeader EXCEPT !.signature = SQLITE_SIGNATURE, !.pageSize = ps,
                      !.unused_reserved_space = r, !.in_header_database_size = MaxPages] :
       ps \in {512, 1024}, r \in {0, 32}}

\* A call of a pure function on a parser whose header has been parsed; the
\* pages of the file play no part in it.
FnInit ==
    /\ call \in VarIntCalls \cup PayloadCalls \cup FieldCalls
    /\ dbHeaderDict \in IF call.fn # "_getPayloadSizeInCell"
                         THEN {h \in PayloadHeaders :
                                 h.pageSize = 512 /\ h.unused_reserved_space = 0}
                         ELSE PayloadHeaders
    /\ file = [File("ok", dbHeaderDict.pageSize, MaxPages,
                     Assemble(DefaultCatalog, LeafPage(<<CellA>>),
                              [n \in 3..MaxPages |-> LeafPage(<<CellA>>)]))
                 EXCEPT !.reserved = dbHeaderDict.unused_reserved_space]
    /\ pc = "call"
    /\ raisedIn = ""
    /\ data = "bytes"
    /\ pageOffsets = 0
    /\ pageNr = 0
    /\ cur = NoPage
    /\ pagenum = -1
    /\ dbPages = << >>
    /\ overflowpages = {}
    /\ dbSchema = << >>
    /\ hdr = [n \in 1..MaxPages |-> NoHdr]
    /\ opt = [freespace |-> FALSE]
    /\ fbOffset = 0
    /\ ptrMap = << >>
    /\ printed = NoOutput
    /\ ret = NoRet

CallGetVarIntOfs ==
    /\ pc = "call"
    /\ call.fn = "_getVarIntOfs"
    /\ ret' = GetVarIntOfs(call.data, call.offset)
    /\ pc' = "returned"
    /\ UNCHANGED <<file, opt, fbOffset, ptrMap, printed, call,
                   raisedIn, data, dbHeaderDict, pageOffsets, pageNr, cur,
                   pagenum, dbPages, overflowpages, dbSchema, hdr>>

\* _parseLeafTableCellHeader, from the call of _getPayloadSizeInCell to the
\* decision to read the overflow page number.
CallGetPayloadSizeInCell ==
    /\ pc = "call"
    /\ call.fn = "_getPayloadSizeInCell"
    /\ ret' = [NoRet EXCEPT
                 !.state = "returned",
                 !.size = GetPayloadSizeInCell(call.payloadlen, dbHeaderDict),
                 !.reads = ReadsOverflowNumber(call.payloadlen, dbHeaderDict)]
    /\ pc' = "returned"
    /\ UNCHANGED <<file, opt, fbOffset, ptrMap, printed, call,
                   raisedIn, data, dbHeaderDict, pageOffsets, pageNr, cur,
                   pagenum, dbPages, overflowpages, dbSchema, hdr>>

\* A turn of the field loop of _parseCell on an integer serial type.
CallParseIntField ==
    /\ pc = "call"
    /\ call.fn = "_parseCell"
    /\ ret' = ParseIntField(call.code, call.data)
    /\ pc' = "returned"
    /\ UNCHANGED <<file, opt, fbOffset, ptrMap, printed, call,
                   raisedIn, data, dbHeaderDict, pageOffsets, pageNr, cur,
                   pagenum, dbPages, overflowpages, dbSchema, hdr>>

FnNext == CallGetVarIntOfs \/ CallGetPayloadSizeInCell \/ CallParseIntField

FnSpec == FnInit /\ [][FnNext]_vars

\* ------------------------------------------------------ output operations
UnknownHdr == [tblname |-> "???", colheader |-> <<"?", "?", "?">>]

\* self.dbSchema[tblname]['schema'] raises KeyError unless tblname names a
\* table of the schema.
SchemaLookupOk(d, tblname) ==
    \E i \in DOMAIN d : d[i].name.s = tblname /\ d[i].type = "table"

\* The head of printTable for a page: the header it prints, if any.
\* page["schema"].popitem() raises KeyError on an empty annotation.
PrintedHdr(dbpage, d, old) ==
    IF ~isRootPage(dbpage) THEN old
    ELSE IF dbpage.schema = {} THEN UnknownHdr
    ELSE LET item == CHOOSE x \in dbpage.schema : TRUE
         IN  IF SchemaLookupOk(d, item.name)
             THEN [tblname |-> item.name, colheader |-> item.colheader]
             ELSE UnknownHdr

\* The page as printTable leaves it: popitem() removes the annotation.
PrintedPage(dbpage) ==
    IF isRootPage(dbpage) THEN [dbpage EXCEPT !.schema = {}] ELSE dbpage

\* A printed data row: the page number, the row tag and the cells.
Row(n, tag, cells) == [page |-> n, tag |-> tag, cells |-> cells]

\* The rows tagged C of printTable for the cell list of page n.
LiveRows(n, celldata) == [i \in 1..Len(celldata) |-> Row(n, "C", celldata[i])]

\* printTable, the free-space section of the page itself: for every entry of
\* page["freespace"], one row tagged FC for every entry of
\* page["fs_celldata"]; the cells of the row are taken from the loop variable
\* row of the live-cell section (its last value: the last live cell).
DirectFreeRows(dbpage) ==
    LET m == Len(dbpage.fs_celldata)
        last == dbpage.celldata[Len(dbpage.celldata)]
    IN  IF opt.freespace /\ hasCelldata(dbpage)
        THEN [k \in 1..(Len(dbpage.freespace) * m) |-> Row(dbpage.pageNr, "FC", last)]
        ELSE << >>

\* The section raises UnboundLocalError in its first turn when the page has
\* no live cell: rownum and row are assigned in the live-cell section only.
DirectFreeRaises(dbpage) ==
    /\ opt.freespace
    /\ hasFreespace(dbpage)
    /\ Len(dbpage.fs_celldata) > 0
    /\ ~hasCelldata(dbpage)

\* printTable, the free-space section of a leaf page of the page: for every
\* entry of freespace, one row tagged FC for every entry of fs_celldata,
\* with the cells of that entry.
LeafFreeRows(leaf) ==
    LET m == Len(leaf.fs_celldata)
    IN  IF opt.freespace /\ hasFreespace(leaf)
        THEN [k \in 1..(Len(leaf.freespace) * m) |->
                Row(leaf.pageNr, "FC", leaf.fs_celldata[((k - 1) % m) + 1])]
        ELSE << >>

\* printTable, the loop over page["leafpages"] from its i-th entry on:
\* self.dbPages[leafpage] raises KeyError for a number that is no page.
RECURSIVE LeafOutput(_, _, _)
LeafOutput(leafpages, i, pages) ==
    IF i > Len(leafpages) THEN NoOutput
    ELSE IF leafpages[i] \notin DOMAIN pages THEN [rows |-> << >>, raised |-> TRUE]
    ELSE LET leaf == pages[leafpages[i]]
             rest == LeafOutput(leafpages, i + 1, pages)
         IN  [rows |-> LiveRows(leaf.pageNr, leaf.celldata) \o LeafFreeRows(leaf)
                         \o rest.rows,
              raised |-> rest.raised]

\* The data rows of printTable for a page, and whether it raised.
PrintedRows(dbpage, pages) ==
    LET live == LiveRows(dbpage.pageNr, dbpage.celldata)
        leaves == LeafOutput(dbpage.leafpages, 1, pages)
    IN  IF DirectFreeRaises(dbpage) THEN [rows |-> live, raised |-> TRUE]
        ELSE [rows |-> live \o DirectFreeRows(dbpage) \o leaves.rows,
              raised |-> leaves.raised]

\* printTable(number=...): a number that is no page prints nothing.
PrintTable(number) ==
    /\ pc = "done"
    /\ IF number \in DOMAIN dbPages
       THEN /\ hdr' = [hdr EXCEPT ![number] = PrintedHdr(dbPages[number], dbSchema, @)]
            /\ dbPages' = [dbPages EXCEPT ![number] = PrintedPage(@)]
            /\ printed' = PrintedRows(dbPages[number], dbPages)
       ELSE /\ printed' = NoOutput
            /\ UNCHANGED <<hdr, dbPages>>
    /\ UNCHANGED <<file, opt, fbOffset, ptrMap, call, ret,
                   pc, raisedIn, data, dbHeaderDict, pageOffsets, pageNr, cur,
                   pagenum, overflowpages, dbSchema>>

\* _lookUpTable: the root page of the first table of that name.
LookUpTable(d, name) ==
    IF \E i \in DOMAIN d : d[i].name.s = name
    THEN LET i == CHOOSE j \in DOMAIN d :
                     d[j].name.s = name /\ \A l \in 1..(j - 1) : d[l].name.s # name
         IN  d[i].rootpage.i
    ELSE 0

\* printTable(name=...)
PrintTableByName(name) ==
    /\ pc = "done"
    /\ PrintTable(LookUpTable(dbSchema, name))

\* printDBData from page n on: printTable for every page but page 1 and the
\* overflow pages, up to the first call that raises.
RECURSIVE PrintDBDataFrom(_, _)
PrintDBDataFrom(n, acc) ==
    IF n \notin DOMAIN acc.dbPages \/ acc.out.raised THEN acc
    ELSE IF n = 1 \/ acc.dbPages[n].pageType = "Overflow Page"
    THEN PrintDBDataFrom(n + 1, acc)
    ELSE LET out == PrintedRows(acc.dbPages[n], acc.dbPages)
         IN  PrintDBDataFrom(n + 1,
                 [dbPages |-> [acc.dbPages EXCEPT ![n] = PrintedPage(@)],
                  hdr |-> [acc.hdr EXCEPT
                             ![n] = PrintedHdr(acc.dbPages[n], dbSchema, @)],
                  out |-> [rows |-> acc.out.rows \o out.rows,
                           raised |-> out.raised]])

PrintDBData ==
    /\ pc = "done"
    /\ LET res == PrintDBDataFrom(1, [dbPages |-> dbPages, hdr |-> hdr,
                                      out |-> NoOutput])
       IN  /\ hdr' = res.hdr
           /\ dbPages' = res.dbPages
           /\ printed' = res.out
    /\ UNCHANGED <<file, opt, fbOffset, ptrMap, call, ret,
                   pc, raisedIn, data, dbHeaderDict, pageOffsets, pageNr, cur,
                   pagenum, overflowpages, dbSchema>>

\* listAllTables, printDBSchema, printDBheader and printPtrMap read
\* self.dbSchema, self.dbPages, self.dbHeaderDict and self.ptrMap and assign
\* to none of them.
ListAllTables == pc = "done" /\ UNCHANGED vars
PrintDBSchema == pc = "done" /\ UNCHANGED vars
PrintDBheader == pc = "done" /\ UNCHANGED vars
PrintPtrMap == pc = "done" /\ UNCHANGED vars

\* ---------------------------------------------------------- specification
Construct ==
    \/ ReadDBFile
    \/ ParseDBHeader
    \/ CheckSqliteDB
    \/ GetPageOffsets
    \/ BeginPage
    \/ ParseCell
    \/ OverflowStep
    \/ OverflowReturn
    \/ FreeBlockStep
    \/ FreeSpaceReturn
    \/ EndPage
    \/ MarkOverflowPages
    \/ ParseDBSchema
    \/ SetSchemaForRootPages
    \/ LPagesWithoutRootPass

Output ==
    \/ \E number \in 0..(MaxPages + 1) : PrintTable(number)
    \/ \E name \in {"t1", "t2", "none"} : PrintTableByName(name)
    \/ PrintDBData
    \/ ListAllTables
    \/ PrintDBSchema
    \/ PrintDBheader
    \/ PrintPtrMap

Next == Construct \/ Output

Spec == Init /\ [][Next]_vars

\* ============================================================ properties
Terminal == {"done", "stopped", "crashed"}

\* C1: a structurally inconsistent cell (a cell pointer that leads outside
\* the file, a payload shorter than its header declares) only drops that
\* cell: the other cells and pages are decoded and construction completes.
\* Stated as: construction never ends by an exception leaving the cell
\* decoder.
C1_InconsistentCellOnlyDropped ==
    pc = "crashed" => raisedIn \notin {"_parseCell", "_readPageCells"}

\* C2: once construction has completed, no output operation changes dbPages
\* or dbSchema, and a printTable on a page that was printed before finds the
\* table name and column header it found then.
C2_OutputLeavesStateAlone ==
    [][pc = "done" =>
          /\ dbPages' = dbPages
          /\ dbSchema' = dbSchema
          /\ \A n \in DOMAIN hdr : hdr[n] # NoHdr => hdr'[n] = hdr[n]]_vars

\* C3: construction runs its phases in the order read file, decode header,
\* decode all pages, mark overflow pages, reconstruct schema, annotate root
\* pages, remap orphans; a phase starts only when the one before it is done
\* for all pages; pages are decoded in ascending page-index order.
PhaseRank(p) ==
    CASE p = "readDBFile" -> 1
      [] p = "parseDBHeader" -> 2
      [] p = "isSqliteDB" -> 2
      [] p = "getPageOffsets" -> 2
      [] p \in {"readallDBPages", "readPageCells", "getoverflowdata",
                "readPageFreeSpace", "endPage"} -> 3
      [] p = "markOverflowPages" -> 4
      [] p = "parseDBSchema" -> 5
      [] p = "setSchemaForRootPages" -> 6
      [] p = "lPagesWithoutRoot" -> 7
      [] p = "done" -> 8
      [] OTHER -> 0

C4_OverflowChainEnds ==
    pc = "getoverflowdata" /\ OverflowLoop => (pagenum + 1) \notin overflowpages

\* C5: in a database without deletions (each leaf-table page behind the
\* catalog page is the root page of a catalog table or a child of an
\* interior-table page) every page's deleted-leaves list is empty after
\* construction.
WithoutDeletions ==
    \A n \in DOMAIN dbPages :
        n # 1 /\ dbPages[n].pageByte = LEAF_TABLE_BTREE_PAGE
            => isRootPage(dbPages[n]) \/ FindLPageinRPage(dbPages, n)

C5_NoDeletionsNoDeletedLeaves ==
    pc = "done" /\ WithoutDeletions
        => \A n \in DOMAIN dbPages : dbPages[n].deletedpages = << >>

\* C6: after construction every page that an overflow chain went through has
\* the page type "Overflow Page".
C6_VisitedPagesAreOverflow ==
    pc = "done" =>
        \A n \in overflowpages :
            n \in DOMAIN dbPages /\ dbPages[n].pageType = "Overflow Page"

C6_Witness ==
    /\ pc = "done"
    /\ \E n \in overflowpages : n \in DOMAIN dbPages /\ IsBtree(dbPages[n].pageByte)

\* C7: for every interior-table page the list of children has exactly
\* cell_count + 1 entries.
C7_ChildListLength ==
    \A n \in DOMAIN dbPages :
        dbPages[n].pageByte = INTERIOR_TABLE_BTREE_PAGE
            => Len(dbPages[n].leafpages) = dbPages[n].cellQty + 1

\* C8: every decoded cell of a leaf-table page has as many fields as its
\* payload header has serial-type codes, the reserved codes 10 and 11
\* included.
C8_FieldPerSerialType ==
    \A n \in DOMAIN dbPages :
        n # 1 /\ dbPages[n].pageByte = LEAF_TABLE_BTREE_PAGE
            => \A i \in DOMAIN dbPages[n].celldata :
                   Len(dbPages[n].celldata[i]) = Len(file.pages[n].cells[i].codes)

\* C9: for each leaf L in the deleted-leaves list of a root page r, the first
\* cell of L has as many fields as the schema annotated on r has columns.
C9_DeletedLeafMatchesAnnotation ==
    pc = "done" =>
        \A r \in DOMAIN dbPages :
            \A i \in DOMAIN dbPages[r].deletedpages :
                \A item \in dbPages[r].schema :
                    Len(dbPages[dbPages[r].deletedpages[i]].celldata[1])
                        = Len(item.colheader)

\* C10: construction succeeds (all phases run, isSqliteDB is true) exactly
\* for the files whose first 16 bytes are the signature; for every other
\* file, those shorter than 100 bytes included, it stops after the header
\* with isSqliteDB false and no page decoded.
C10_SignatureDecides ==
    /\ file.sig = "ok" => pc \notin {"crashed", "stopped"}
    /\ file.sig # "ok" =>
           /\ pc \in {"readDBFile", "parseDBHeader", "isSqliteDB", "stopped"}
           /\ dbPages = << >>
    /\ pc = "stopped" => ~isSqliteDB
    /\ pc = "done" => isSqliteDB

\* C11: in the freeblock walk, a block whose next-block offset is its own
\* offset is visited exactly once and the walk then ends: the turn that
\* visits it appends at most one entry and leaves the loop variable at 0, and
\* no such block is ever listed twice.
SelfPointing(p, o) == o \in DOMAIN p.blocks /\ p.blocks[o].start = o

LastPartial(f) == f.sig = "ok" /\ f.pages[Len(f.pages)].partial

C12_PartialFinalPageDropped ==
    LastPartial(file) =>
        /\ ~(pc = "crashed" /\ raisedIn = "_parsePageHeader")
        /\ \A n \in DOMAIN dbPages : ~file.pages[n].partial
        /\ pc = "done" => DOMAIN dbPages = 1..(Len(file.pages) - 1)

\* C13: a header page-size value of 1 stands for 65536: the parser then
\* takes one page offset per 65536 bytes and construction goes on with pages
\* of that size.
C13_PageSizeOneIs65536 ==
    (file.sig = "ok" /\ file.pageSize = 1
        /\ pc \notin {"readDBFile", "parseDBHeader", "isSqliteDB", "getPageOffsets"})
    => /\ pageOffsets = Len(file.pages)
       /\ pc # "crashed"

\* C14: in a file with the incremental-vacuum flag set, page 2 is classified
\* "pointer map" whatever its first byte is, and hasPtrMap() is true.
C14_PageTwoIsPointerMap ==
    (2 \in DOMAIN dbPages /\ dbHeaderDict.incremental_vacuum > 0)
    => /\ dbPages[2].pageType = "pointer map"
       /\ hasPtrMap

\* The variable-length integer at offset as the file format defines it: up to
\* 8 bytes give 7 digits each, the first of them with the high bit clear ends
\* the number; a 9th byte ends it and gives 8 digits.  complete: the buffer
\* did not end before the number did.
RECURSIVE RefVarInt(_, _, _, _)
RefVarInt(buf, offset, n, acc) ==
    IF offset + n >= Len(buf) THEN [val |-> Norm(acc), len |-> n, complete |-> FALSE]
    ELSE LET b == buf[offset + n + 1]
         IN  IF n = 8
             THEN [val |-> Norm(acc \o Bits(b, 8)), len |-> 9, complete |-> TRUE]
             ELSE IF b < 128
             THEN [val |-> Norm(acc \o Bits(b, 7)), len |-> n + 1, complete |-> TRUE]
             ELSE RefVarInt(buf, offset, n + 1, acc \o Bits(b - 128, 7))

\* The buffer holds at offset the encoding of a value v in [0, 2^63): the
\* shortest run of bytes that gives v.
IsEncoding(buf, offset) ==
    LET r == RefVarInt(buf, offset, 0, << >>)
    IN  /\ r.complete
        /\ \/ r.len = 1
           \/ r.len \in 2..8 /\ Len(r.val) > 7 * (r.len - 1)
           \/ r.len = 9 /\ Len(r.val) \in 57..63

\* C15: for every value v in [0, 2^63), _getVarIntOfs on the encoding of v
\* returns v and the length of the encoding, 9-byte encodings (whose 9th byte
\* gives 8 digits) included.
C15_VarIntRoundTrip ==
    (pc = "returned" /\ call.fn = "_getVarIntOfs"
        /\ IsEncoding(call.data, call.offset))
    => LET r == RefVarInt(call.data, call.offset, 0, << >>)
       IN  /\ ret.state = "returned"
           /\ ret.val = r.val
           /\ ret.len = r.len

\* C16: _getVarIntOfs is total: on any buffer and offset with at least one
\* byte it returns, without raising, a length between 1 and 9.
C16_VarIntTotal ==
    (pc = "returned" /\ call.fn = "_getVarIntOfs" /\ call.offset < Len(call.data))
    => /\ ret.state = "returned"
       /\ ret.len \in 1..9

\* C20: for every payload length and every header, the local payload size
\* that _getPayloadSizeInCell computes is the reference value for the usable
\* size U = page size - reserved tail, and the first-overflow-page number is
\* read exactly when the local size is smaller than the payload length.
RefLocalSize(payloadlen, U) ==
    LET maxLocal == U - 35
        minLocal == (((U - 12) * 32) \div 255) - 23
        local == minLocal + ((payloadlen - minLocal) % (U - 4))
    IN  IF payloadlen <= maxLocal THEN payloadlen
        ELSE IF local > maxLocal THEN maxLocal
        ELSE local

C20_LocalPayloadSize ==
    (pc = "returned" /\ call.fn = "_getPayloadSizeInCell")
    => /\ ret.size = RefLocalSize(call.payloadlen,
                          dbHeaderDict.pageSize - dbHeaderDict.unused_reserved_space)
       /\ ret.reads <=> (ret.size < call.payloadlen)

\* C18: a table whose CREATE TABLE text has no matched column list is in the
\* schema under its name with an empty column list; and no leaf is remapped
\* to a root page on account of a table with an empty column list: every
\* entry of a deleted-leaves list matches a table of that root that has
\* columns.
SchemaBuilt == pc \in {"setSchemaForRootPages", "lPagesWithoutRoot", "done"}

C18_UnparsedTableKeptByName ==
    SchemaBuilt =>
        /\ \A i \in DOMAIN file.pages[1].cells :
              LET c == file.pages[1].cells[i]
              IN  (Len(c.vals) = 5 /\ c.vals[1] = TextV("table")
                     /\ FindSQLCmdError(c.vals[5]))
                  => \E j \in DOMAIN dbSchema :
                        dbSchema[j].name = c.vals[2] /\ dbSchema[j].schema = << >>
        /\ \A r \in DOMAIN dbPages :
              \A k \in DOMAIN dbPages[r].deletedpages :
                 LET lp == dbPages[r].deletedpages[k]
                 IN  \E j \in DOMAIN dbSchema :
                        /\ dbSchema[j].type = "table"
                        /\ dbSchema[j].rootpage = IntV(r)
                        /\ dbSchema[j].schema # << >>
                        /\ Len(dbSchema[j].schema) = Len(dbPages[lp].celldata[1])

\* C19: for a leaf-table cell whose payload overflows, every first-overflow
\* page number f with 0 < f <= declared page count is followed, f = declared
\* page count included: once the cell is decoded, page f is among the visited
\* overflow pages.  (f = 1, the page that holds the file header, is left
\* aside.)
C19_FirstOverflowPageFollowed ==
    \A n \in DOMAIN dbPages :
       dbPages[n].pageByte = LEAF_TABLE_BTREE_PAGE =>
          \A i \in DOMAIN dbPages[n].celldata :
             LET f == file.pages[n].cells[i].ovf
             IN  (1 < f /\ f <= dbHeaderDict.in_header_database_size)
                 => f \in overflowpages

\* C17: with the freespace option on, every row that printTable tags FC has
\* as its columns the fields of a scavenged free-block cell of the page the
\* row is printed for, whether the page is printed directly or as a leaf of
\* an interior root; it never has the fields of a live cell instead.
C17_FreeCellRowsShowScavengedCell ==
    \A k \in DOMAIN printed.rows :
       LET row == printed.rows[k]
       IN  row.tag = "FC" =>
              \E e \in DOMAIN dbPages[row.page].fs_celldata :
                 row.cells = dbPages[row.page].fs_celldata[e]

\* C21: in a decoded leaf-table cell a NULL serial type gives the cell's
\* row id in the first column only; in every later column it gives NULL.
\* (Cells with a reserved serial type, whose fields are shifted, are left
\* aside.)
NullValue == [k |-> "NoneType", i |-> 0, s |-> "", q |-> << >>]

C21_NullIsRowIdInFirstColumnOnly ==
    \A n \in DOMAIN dbPages :
        n # 1 /\ dbPages[n].pageByte = LEAF_TABLE_BTREE_PAGE
            => \A i \in DOMAIN dbPages[n].celldata :
                  LET c == file.pages[n].cells[i]
                      fields == dbPages[n].celldata[i]
                  IN  Len(fields) = Len(c.codes)
                      => \A j \in DOMAIN c.codes :
                            c.codes[j] = 0
                            => fields[j] = IF j = 1 THEN IntV(c.rid) ELSE NullValue

\* C22: a field of serial type 1, 2, 3, 4 or 6 in a leaf-table cell decodes
\* to the big-endian two's-complement signed integer of its 1, 2, 3, 4 or 8
\* bytes (the int8 byte 0xFF to -1, an int24 field to an integer).
RefSignedInt(x) == Canon(<<IF x[1] >= 128 THEN x[1] - 256 ELSE x[1]>> \o Tail(x))

C22_SignedIntegerFields ==
    (pc = "returned" /\ call.fn = "_parseCell" /\ call.code \in {1, 2, 3, 4, 6}
        /\ Len(call.data) >= FieldWidth(call.code))
    => /\ ret.state = "returned"
       /\ ret.k = "int"
       /\ ret.val = RefSignedInt(SubSeq(call.data, 1, FieldWidth(call.code)))

\* C23: for every page, the retained unallocated bytes are the bytes from
\* the end of the cell-pointer array (the page header of 8 or 12 bytes, behind
\* the 100-byte file header on page 1, and 2 bytes per cell) up to but
\* excluding the offset of the cell content area.
RefUnallocated(n, p, len) ==
    LET start == (IF n = 1 THEN 100 ELSE 0)
                 + (IF p.pageByte \in {INTERIOR_TABLE_BTREE_PAGE,
                                       INTERIOR_INDEX_BTREE_PAGE} THEN 12 ELSE 8)
                 + 2 * p.cellQty
        end == IF p.cellOffset > len THEN len ELSE p.cellOffset
    IN  IF end <= start THEN NoBytes ELSE [lo |-> start, hi |-> end]

C23_UnallocatedUpToCellContent ==
    \A n \in DOMAIN dbPages :
        (IsBtree(file.pages[n].pageByte) /\ file.pages[n].cellQty >= 0)
        => dbPages[n].unallocated
              = RefUnallocated(n, file.pages[n],
                               PageLen(file.pages[n], dbHeaderDict.pageSize))

\* C24: every comma-separated entry of a CREATE TABLE column list that is
\* not empty and does not start with PRIMARY or UNIQUE gives exactly one
\* column of the table's schema, an entry of a column name alone included:
\* the schema has as many columns as there are such entries.
RECURSIVE SurvivingEntries(_, _)
SurvivingEntries(entries, i) ==
    IF i > Len(entries) THEN 0
    ELSE (IF Len(entries[i]) > 0 /\ entries[i][1] \notin {"PRIMARY", "UNIQUE"}
          THEN 1 ELSE 0)
         + SurvivingEntries(entries, i + 1)

C24_ColumnPerSurvivingEntry ==
    SchemaBuilt =>
        \A j \in DOMAIN dbSchema :
            dbSchema[j].type = "table" =>
                \E i \in DOMAIN file.pages[1].cells :
                    LET c == file.pages[1].cells[i]
                    IN  /\ Len(c.vals) = 5
                        /\ c.vals[2] = dbSchema[j].name
                        /\ Len(dbSchema[j].schema) = SurvivingEntries(c.vals[5].q, 1)

\* C25: after the orphan remapping, a page L is in the deleted-leaves list
\* of a page r exactly if L is a leaf-table page with at least one decoded
\* cell that is no child of an interior-table page, and r is the root page
\* of a table of the schema with as many columns as the first cell of L has
\* fields.
InDeleted(r, L) ==
    \E k \in DOMAIN dbPages[r].deletedpages : dbPages[r].deletedpages[k] = L

Orphan(L) ==
    /\ dbPages[L].pageByte = LEAF_TABLE_BTREE_PAGE
    /\ hasCelldata(dbPages[L])
    /\ \A p \in DOMAIN dbPages :
          dbPages[p].pageByte = INTERIOR_TABLE_BTREE_PAGE
          => \A i \in DOMAIN dbPages[p].leafpages : dbPages[p].leafpages[i] # L

RootWithColumns(r, k) ==
    \E j \in DOMAIN dbSchema :
        /\ dbSchema[j].type = "table"
        /\ dbSchema[j].rootpage = IntV(r)
        /\ Len(dbSchema[j].schema) = k

C25_OrphansToMatchingRoots ==
    pc = "done" =>
        \A r \in DOMAIN dbPages : \A L \in DOMAIN dbPages :
            InDeleted(r, L)
            <=> (Orphan(L) /\ RootWithColumns(r, Len(dbPages[L].celldata[1])))

C25_Witness ==
    /\ pc = "done"
    /\ \E r \in DOMAIN dbPages : \E L \in DOMAIN dbPages : \E r2 \in DOMAIN dbPages :
          /\ r # L /\ r2 # r
          /\ InDeleted(r, L)
          /\ isRootPage(dbPages[r2]) /\ ~InDeleted(r2, L)

\* C26: the schema reconstruction reads the catalog rows of every leaf page
\* in the child list of page 1, a child whose page number is the declared
\* page count included: every row of such a leaf that names a table, index,
\* view or trigger is in the schema under its name.
C26_LastPageChildIsRead ==
    (SchemaBuilt /\ dbPages[1].pageByte = INTERIOR_TABLE_BTREE_PAGE) =>
        \A k \in DOMAIN dbPages[1].leafpages :
            LET lp == dbPages[1].leafpages[k]
            IN  (lp \in DOMAIN dbPages /\ lp <= dbHeaderDict.in_header_database_size
                   /\ dbPages[lp].pageByte = LEAF_TABLE_BTREE_PAGE)
                => \A i \in DOMAIN file.pages[lp].cells :
                      LET c == file.pages[lp].cells[i]
                      IN  (Len(c.vals) = 5 /\ IsSqlType(c.vals[1])
                              /\ ~FindSQLCmdError(c.vals[5]))
                          => \E j \in DOMAIN dbSchema : dbSchema[j].name = c.vals[2]

\* C28: the schema reconstruction leaves the cell list of every page as the
\* page-decoding phase made it, that of page 1 included, also when page 1 is
\* an interior table page with child leaves.
C28_SchemaLeavesCellListsAlone ==
    [][pc = "parseDBSchema" =>
          \A n \in DOMAIN dbPages : dbPages'[n].celldata = dbPages[n].celldata]_vars

\* C27: the freeblock walk of a page ends for every page content, also when
\* the next-block offsets form a cycle of two or more blocks, and visits no
\* block twice.  A turn of the walk is a function of the offset and of the
\* page alone, so a turn on a block that a turn before it was on is repeated
\* for ever.  Stated on finite runs: the walk is never about to turn on a
\* block it has listed already.
C27_FreeBlockWalkEnds ==
    (pc = "readPageFreeSpace" /\ fbOffset > 0)
    => \A k \in DOMAIN cur.freespace : cur.freespace[k] # fbOffset

\* The number of printed rows tagged C that carry the number of page n.
LiveRowCount(out, n) ==
    Cardinality({k \in DOMAIN out.rows :
                    out.rows[k].page = n /\ out.rows[k].tag = "C"})

\* Page n is listed as a leaf exactly once by the pages of the database.
ListedOnce(pages, n) ==
    Cardinality({x \in (DOMAIN pages) \X (1..(MaxCells + 1)) :
                    /\ x[2] \in DOMAIN pages[x[1]].leafpages
                    /\ pages[x[1]].leafpages[x[2]] = n}) = 1

\* C29: a dump of the whole database prints every live cell of a leaf table
\* page at most once as a row tagged C: a leaf printed under its interior
\* page is not printed again at its own number.
C29_DumpPrintsLiveCellsOnce ==
    [][PrintDBData =>
         \A n \in DOMAIN dbPages :
             (dbPages[n].pageType = "leaf table b-tree" /\ ListedOnce(dbPages, n))
             => LiveRowCount(printed', n) <= Len(dbPages[n].celldata)]_vars

\* The number of printed rows tagged FC that carry the number of page n.
FreeRowCount(out, n) ==
    Cardinality({k \in DOMAIN out.rows :
                    out.rows[k].page = n /\ out.rows[k].tag = "FC"})

\* The pages that printTable(number) prints: the page and its leaf pages,
\* when the leaf pages are pages, none is listed twice and none is the page.
ShownOnce(pages, number) ==
    LET l == pages[number].leafpages
    IN  /\ \A i \in DOMAIN l : l[i] \in DOMAIN pages /\ l[i] # number
        /\ \A i, j \in DOMAIN l : l[i] = l[j] => i = j

Shown(pages, number) ==
    {number} \cup {pages[number].leafpages[i] : i \in DOMAIN pages[number].leafpages}

\* C30: with the freespace option on, one call of printTable prints every
\* cell recovered from the freeblocks of a page exactly once, however many
\* freeblocks the page has: one row tagged FC for every entry of fs_celldata.
C30_FreeCellsPrintedOnce ==
    [][\A number \in DOMAIN dbPages :
          (PrintTable(number) /\ opt.freespace /\ ~printed'.raised
              /\ ShownOnce(dbPages, number))
          => \A n \in Shown(dbPages, number) :
                 FreeRowCount(printed', n) = Len(dbPages[n].fs_celldata)]_vars

====
